---- MODULE Spec2Model ----
(***************************************************************************)
(* Model of src/app.py: the Streamlit script that bulk-creates Facebook    *)
(* lookalike audiences.  One script run resolves the operator's selection, *)
(* checks the configuration guard and, once the button is pressed, walks   *)
(* the product sources x countries x ratios, calling the remote create API *)
(* once per triple.  A second part models the memoised audience listing.   *)
(*                                                                         *)
(* Text values (str in the source) are sequences of one-character strings, *)
(* so that split, strip, upper, slicing, formatting and the regular        *)
(* expression search are computed, not assumed.                            *)
(*                                                                         *)
(* Left out: the search box of lines 197-201 (df_display is the listing as *)
(* fetched), and the branches of lines 181-193 in which no listing is      *)
(* shown and the script run ends before any selection.                     *)
(***************************************************************************)
EXTENDS Integers, Sequences, FiniteSets, TLC

------------------------------------------------------------------------------
(* Bounds of the model.                                                     *)

\* Largest number of tasks (sources * countries * ratios) of a modelled run.
MaxTasks == 4
\* Number of consecutive script runs (button presses) in SpecTwice.
MaxPasses == 2
\* Largest clock value, in seconds, in SpecCache.
MaxNow == 1500

------------------------------------------------------------------------------
(* Text helpers: the str methods the script uses.                           *)

None == "None"

DigitChars == <<"0", "1", "2", "3", "4", "5", "6", "7", "8", "9">>
LowerChars == <<"a","b","c","d","e","f","g","h","i","j","k","l","m","n","o","p","q","r","s","t","u","v","w","x","y","z">>
UpperChars == <<"A","B","C","D","E","F","G","H","I","J","K","L","M","N","O","P","Q","R","S","T","U","V","W","X","Y","Z">>

Range(s) == {s[i] : i \in DOMAIN s}

IsDigit(c) == c \in Range(DigitChars)

\* \w of the re module, restricted to ASCII.
IsWordChar(c) == c \in Range(DigitChars) \cup Range(LowerChars) \cup Range(UpperChars) \cup {"_"}

\* str.isspace for the characters a one-line text input can hold.
Whitespace == {" ", "\t"}

UpperChar(c) ==
    IF c \in Range(LowerChars)
    THEN UpperChars[CHOOSE i \in DOMAIN LowerChars : LowerChars[i] = c]
    ELSE c

\* str.upper()
Upper(s) == [i \in DOMAIN s |-> UpperChar(s[i])]

RECURSIVE LStrip(_)
LStrip(s) == IF s # <<>> /\ Head(s) \in Whitespace THEN LStrip(Tail(s)) ELSE s

RECURSIVE RStrip(_)
RStrip(s) ==
    IF s # <<>> /\ s[Len(s)] \in Whitespace THEN RStrip(SubSeq(s, 1, Len(s) - 1)) ELSE s

\* str.strip()
Strip(s) == RStrip(LStrip(s))

\* str.split(sep) for a one-character separator: "" gives [""], "a," gives ["a", ""].
RECURSIVE Split(_, _)
Split(s, sep) ==
    IF \E i \in DOMAIN s : s[i] = sep
    THEN LET i == CHOOSE i \in DOMAIN s : s[i] = sep /\ \A j \in 1..(i - 1) : s[j] # sep
         IN  <<SubSeq(s, 1, i - 1)>> \o Split(SubSeq(s, i + 1, Len(s)), sep)
    ELSE <<s>>

\* needle in text
Contains(text, needle) ==
    \E p \in 1..(Len(text) - Len(needle) + 1) :
        SubSeq(text, p, p + Len(needle) - 1) = needle

\* str.endswith(suffix)
EndsWith(text, suffix) ==
    /\ Len(suffix) <= Len(text)
    /\ SubSeq(text, Len(text) - Len(suffix) + 1, Len(text)) = suffix

\* str(n) for n >= 0
RECURSIVE IntToText(_)
IntToText(n) ==
    IF n < 10 THEN <<DigitChars[n + 1]>>
    ELSE IntToText(n \div 10) \o <<DigitChars[(n % 10) + 1]>>

\* format(n, ",") for n >= 0: groups of three digits separated by commas.
RECURSIVE FormatThousands(_)
FormatThousands(n) ==
    IF n < 1000 THEN IntToText(n)
    ELSE LET r == n % 1000
             pad == IF r < 10 THEN <<"0","0">> ELSE IF r < 100 THEN <<"0">> ELSE <<>>
         IN  FormatThousands(n \div 1000) \o <<",">> \o pad \o IntToText(r)

DigitValue(c) == (CHOOSE i \in DOMAIN DigitChars : DigitChars[i] = c) - 1

RECURSIVE DigitsValue(_)
DigitsValue(ds) ==
    IF ds = <<>> THEN 0
    ELSE 10 * DigitsValue(SubSeq(ds, 1, Len(ds) - 1)) + DigitValue(ds[Len(ds)])

------------------------------------------------------------------------------
(* float(ratio) and int(float(ratio) * 100), lines 108 and 254.  A float is *)
(* held as its exact number of thousandths; the texts the model draws have  *)
(* at most three fraction digits and no sign or exponent.                   *)

\* float(text) accepts digits with at most one point and at least one digit.
IsDecimal(text) ==
    /\ \A i \in DOMAIN text : IsDigit(text[i]) \/ text[i] = "."
    /\ Cardinality({i \in DOMAIN text : text[i] = "."}) <= 1
    /\ \E i \in DOMAIN text : IsDigit(text[i])

\* float(text) raises ValueError on any other text.
RaisesValueError(text) == ~IsDecimal(text)

\* float(text), in thousandths, for a text float() accepts.
FloatThousandths(text) ==
         LET dot == IF \E i \in DOMAIN text : text[i] = "."
                    THEN CHOOSE i \in DOMAIN text : text[i] = "."
                    ELSE Len(text) + 1
             whole == SubSeq(text, 1, dot - 1)
             frac == SubSeq(SubSeq(text, dot + 1, Len(text)) \o <<"0","0","0">>, 1, 3)
         IN  DigitsValue(whole) * 1000 + DigitsValue(frac)

\* The ratios r in [0, 1] with at most three decimals for which the binary64
\* product float(r) * 100 falls just below the integer: 0.29 * 100 is
\* 28.999999999999996, and so for 0.57 and 0.58.
FloatShort == {290, 570, 580}

\* int(float(ratio) * 100): truncation of the binary64 product.
Percentage(ratio) ==
    LET th == FloatThousandths(ratio)
    IN  (th \div 10) - (IF th \in FloatShort THEN 1 ELSE 0)

\* f"{country.upper()}-{percentage}%-{source_audience_name}"
LookalikeName(country, ratio, source_audience_name) ==
    Upper(country) \o <<"-">> \o IntToText(Percentage(ratio)) \o <<"%","-">> \o source_audience_name

\* The audience part of progress_text: f"{country.upper()}-{int(float(ratio)*100)}% LAL..."
ProgressLabel(country, ratio) ==
    Upper(country) \o <<"-">> \o IntToText(Percentage(ratio)) \o <<"%"," ","L","A","L",".",".",".">>

------------------------------------------------------------------------------
(* Sidebar parsing, lines 164-168.                                          *)

\* Faulty variant of KeepEntry: the comprehension without its filter.
KeepEntryNoFilter(entry) == TRUE

\* The filter "if c.strip()" of both comprehensions.
KeepEntry(entry) == Strip(entry) # <<>>

\* [c.strip().upper() for c in countries_input.split(',') if c.strip()]
ParseCountries(text) ==
    LET kept == SelectSeq(Split(text, ","), KeepEntry)
    IN  [i \in DOMAIN kept |-> Upper(Strip(kept[i]))]

\* [r.strip() for r in ratios_input.split(',') if r.strip()]
ParseRatios(text) ==
    LET kept == SelectSeq(Split(text, ","), KeepEntry)
    IN  [i \in DOMAIN kept |-> Strip(kept[i])]

------------------------------------------------------------------------------
(* The remote audience listing and get_custom_audiences, lines 63-103.      *)

TTL == 600

Accounts == {"A", "B", "C", "D"}

Audience(id, name, size, time_updated) ==
    [id |-> id, name |-> name, size |-> size, time_updated |-> time_updated]

\* What account.get_custom_audiences returns for each account, in the
\* remote's order.  time_updated is held in minutes: the fixed-width text
\* strftime('%Y-%m-%d %H:%M') produces sorts as the minutes do.
\*   A: two unrelated audiences
\*   B: two audiences whose ids share their last six characters
\*   C: an audience whose name quotes another audience's "ID: ...xxxxxx"
\*   D: an audience whose name quotes an id suffix no audience has
RemoteAudiences(account) ==
    CASE account = "A" -> << Audience(<<"1","3","0","0","0","0","2">>, <<"C","a","r","t">>, 50, 10),
                             Audience(<<"1","2","0","0","0","0","1">>, <<"V","I","P">>, 1200, 20) >>
      [] account = "B" -> << Audience(<<"1","6","5","4","3","2","1">>, <<"V","I","P">>, 1200, 20),
                             Audience(<<"2","6","5","4","3","2","1">>, <<"C","a","r","t">>, 50, 10) >>
      [] account = "C" -> << Audience(<<"1","2","0","0","0","0","1">>, <<"V","I","P">>, 1200, 10),
                             Audience(<<"1","3","0","0","0","0","2">>, <<"o","l","d"," ","I","D",":"," ",".",".",".","2","0","0","0","0","1">>, 50, 20) >>
      [] account = "D" -> << Audience(<<"1","2","0","0","0","0","1">>, <<"V","I","P">>, 1200, 20),
                             Audience(<<"1","3","0","0","0","0","2">>, <<"I","D",":"," ",".",".",".","z","z","z","z","z","z">>, 50, 10) >>

\* audiences_data.append({...}) per remote audience, lines 86-93.
AudienceRow(a) ==
    [id |-> a.id, name |-> a.name, size |-> a.size, updated_time |-> a.time_updated]

\* list.sort(key=updated_time, reverse=True): stable, descending.
RECURSIVE SortByUpdatedDesc(_)
SortByUpdatedDesc(rows) ==
    IF rows = <<>> THEN <<>>
    ELSE LET rest == SortByUpdatedDesc(Tail(rows))
             h == Head(rows)
             before == SelectSeq(rest, LAMBDA r : r.updated_time > h.updated_time)
             after == SelectSeq(rest, LAMBDA r : r.updated_time <= h.updated_time)
         IN  before \o <<h>> \o after

\* The successful return value (audiences_data, None), lines 84-97.
FetchedListing(account) ==
    LET remote == RemoteAudiences(account)
    IN  <<SortByUpdatedDesc([i \in DOMAIN remote |-> AudienceRow(remote[i])]), None>>

\* The two error returns ([], error_message), lines 98-103.
FetchErrors == { << <<>>, <<"A","P","I"," ","e","r","r","o","r",":"," ","t","o","k","e","n"," ","e","x","p","i","r","e","d">> >>,
                 << <<>>, <<"u","n","k","n","o","w","n"," ","e","r","r","o","r",":"," ","t","i","m","e","o","u","t">> >> }

\* What one execution of the function body can return for an account.
FetchResults(account) == {FetchedListing(account)} \cup FetchErrors

\* The key st.cache_data files a call under: the function's arguments, minus
\* every parameter whose name starts with an underscore, which Streamlit
\* leaves out of the hash.  The only parameter is _ad_account_id.
CacheKey(account) == <<>>

------------------------------------------------------------------------------
(* Source selection, lines 203-220.                                         *)

\* row['id'][-6:]
LastSix(id) == SubSeq(id, IF Len(id) > 6 THEN Len(id) - 5 ELSE 1, Len(id))

\* f"{row['name']} (Size: {row['size']:,} | ID: ...{row['id'][-6:]})"
DisplayName(row) ==
    row.name \o <<" ","(","S","i","z","e",":"," ">> \o FormatThousands(row.size) \o <<" ","|"," ","I","D",":"," ",".",".",".">>
        \o LastSix(row.id) \o <<")">>

IdMarker == <<"I","D",":"," ",".",".",".">>

\* Where re.search(r"ID: \.\.\.(\w{6})", text) can match.
MatchesAt(text, p) ==
    /\ p + Len(IdMarker) + 5 <= Len(text)
    /\ SubSeq(text, p, p + Len(IdMarker) - 1) = IdMarker
    /\ \A q \in (p + Len(IdMarker))..(p + Len(IdMarker) + 5) : IsWordChar(text[q])

\* match.group(1) of the leftmost match, or None.
SearchIdSuffix(text) ==
    IF \E p \in DOMAIN text : MatchesAt(text, p)
    THEN LET p == CHOOSE p \in DOMAIN text :
                      MatchesAt(text, p) /\ \A q \in 1..(p - 1) : ~MatchesAt(text, q)
         IN  SubSeq(text, p + Len(IdMarker), p + Len(IdMarker) + 5)
    ELSE None

\* df_display[df_display['id'].str.endswith(suffix)]
RowsEndingWith(rows, suffix) == SelectSeq(rows, LAMBDA r : EndsWith(r.id, suffix))

IndexError == "IndexError"

\* The loop of lines 212-220 over the selected display names: the list of
\* {id, name} it builds, or IndexError when .iloc[0] finds no row.
RECURSIVE ResolveSelection(_, _)
ResolveSelection(rows, display_names) ==
    IF display_names = <<>> THEN <<>>
    ELSE LET suffix == SearchIdSuffix(Head(display_names))
             found == IF suffix = None THEN <<>> ELSE RowsEndingWith(rows, suffix)
             rest == ResolveSelection(rows, Tail(display_names))
         IN  IF suffix # None /\ found = <<>> THEN IndexError
             ELSE IF rest = IndexError THEN IndexError
             ELSE IF suffix = None THEN rest
             ELSE <<[id |-> found[1].id, name |-> found[1].name]>> \o rest

------------------------------------------------------------------------------
(* The executor create_lookalike_audience, lines 106-137.                   *)

\* The substring line 133 looks for in the remote error message.
DuplicateNeedle == <<"n","a","m","e"," ","i","s"," ","a","l","r","e","a","d","y"," ","u","s","e","d">>

\* The reason text of a skipped result, line 134 (in the source a Chinese
\* phrase meaning "an audience of the same name already exists").
SkipReason == <<"d","u","p","l","i","c","a","t","e"," ","n","a","m","e">>

DuplicateMessage == <<"(","#","2","6","5","4",")"," ","T","h","e"," ","n","a","m","e"," ","i","s"," ","a","l","r","e","a","d","y"," ","u","s","e","d",".">>
OtherMessage == <<"(","#","1","0","0",")"," ","I","n","v","a","l","i","d"," ","c","o","u","n","t","r","y">>

Ok(id) == [kind |-> "ok", id |-> id]
ApiError(message) == [kind |-> "api_error", message |-> message]
OtherException(text) == [kind |-> "exception", text |-> text]

\* What create_custom_audience can do inside the try block: return an
\* audience, raise FacebookRequestError, or raise anything else.
RemoteOutcomes(call_number) ==
    { Ok(<<"9">> \o IntToText(call_number)),
      ApiError(DuplicateMessage),
      ApiError(OtherMessage),
      OtherException(<<"c","o","n","n","e","c","t","i","o","n"," ","r","e","s","e","t">>) }

\* 'starting_ratio': float(ratio) - 0.01 if float(ratio) > 0.01 else 0, in thousandths.
StartingRatio(ratio) ==
    IF FloatThousandths(ratio) > 10 THEN FloatThousandths(ratio) - 10 ELSE 0

\* The params of create_custom_audience, lines 112-127.
CreateParams(source_audience_id, lookalike_name, country, ratio) ==
    [ name |-> lookalike_name,
      subtype |-> "LOOKALIKE",
      origin_audience_id |-> source_audience_id,
      starting_ratio |-> StartingRatio(ratio),
      ratio |-> FloatThousandths(ratio),
      countries |-> <<country>> ]

\* Faulty variant of IsSkippedDuplicate: the conflict policy is not consulted.
IsSkippedDuplicateAnyPolicy(message, conflict_strategy) ==
    Contains(message, DuplicateNeedle)

\* The condition of line 133.
IsSkippedDuplicate(message, conflict_strategy) ==
    Contains(message, DuplicateNeedle) /\ conflict_strategy = "skip"

\* The value the executor returns for what the remote call did, lines 129-137.
TaskResult(lookalike_name, outcome, conflict_strategy) ==
    CASE outcome.kind = "ok" ->
            [status |-> "success", name |-> lookalike_name, id |-> outcome.id]
      [] outcome.kind = "api_error" ->
            IF IsSkippedDuplicate(outcome.message, conflict_strategy)
            THEN [status |-> "skipped", name |-> lookalike_name, reason |-> SkipReason]
            ELSE [status |-> "failed", name |-> lookalike_name, reason |-> outcome.message]
      [] outcome.kind = "exception" ->
            [status |-> "failed", name |-> lookalike_name, reason |-> outcome.text]

------------------------------------------------------------------------------
(* The batch loop, lines 228-282.                                           *)

\* The success item of line 269: **name** (ID: id), the id in code quotes,
\* which are written ' here.
SuccessItem(result) == <<"*","*">> \o result.name \o <<"*","*"," ","(","I","D",":"," ","'">> \o result.id \o <<"'",")">>

\* f"**{result['name']}**: {result['reason']}", lines 272 and 275
ReasonItem(result) == <<"*","*">> \o result.name \o <<"*","*",":"," ">> \o result.reason

\* Faulty variant of ProgressCount: the number of finished tasks is shown.
ProgressCountDone(done) == done

\* The count shown in progress_text and the numerator of the bar, lines 254-255.
ProgressCount(done) == done + 1

\* progress_text, line 254 (the source's leading Chinese word is "creating").
ProgressText(country, ratio, count, total_tasks) ==
    <<"c","r","e","a","t","i","n","g",":"," ">> \o ProgressLabel(country, ratio) \o <<" ","(">>
        \o IntToText(count) \o <<"/">> \o IntToText(total_tasks) \o <<")">>

\* The text of the closing progress update, line 280.
FinishedText == <<"a","l","l"," ","t","a","s","k","s"," ","d","o","n","e">>

\* No position: before the loops start and after they end.
NoTriple == [s |-> 0, c |-> 0, r |-> 0]

\* No return value waiting to be recorded.
NoResult == [status |-> "none"]

\* Faulty variant of NextTriple: the country and ratio loops are swapped.
NextTripleCountryMinor(at, n_sources, n_countries, n_ratios) ==
    IF at.c < n_countries THEN [at EXCEPT !.c = at.c + 1]
    ELSE IF at.r < n_ratios THEN [at EXCEPT !.r = at.r + 1, !.c = 1]
    ELSE IF at.s < n_sources THEN [s |-> at.s + 1, c |-> 1, r |-> 1]
    ELSE NoTriple

\* The next (source, country, ratio) position of the three nested for
\* loops, lines 251-253, or NoTriple after the last one.
NextTriple(at, n_sources, n_countries, n_ratios) ==
    IF at.r < n_ratios THEN [at EXCEPT !.r = at.r + 1]
    ELSE IF at.c < n_countries THEN [at EXCEPT !.c = at.c + 1, !.r = 1]
    ELSE IF at.s < n_sources THEN [s |-> at.s + 1, c |-> 1, r |-> 1]
    ELSE NoTriple

------------------------------------------------------------------------------
(* State.                                                                   *)

VARIABLES
    ad_account_id,      \* the sidebar's account id
    countries_input,    \* the sidebar's country text
    ratios_input,       \* the sidebar's ratio text
    selected_strategy,  \* "skip" or "strict"
    countries,          \* line 165
    ratios,             \* line 168
    df_display,         \* the listing rows shown to the operator
    picked_rows,        \* the rows the operator ticked, by position in df_display
    selected_audience_display_names,  \* what st.multiselect returns
    selected_audiences, \* line 210
    pc,                 \* where the script run stands
    raised,             \* the uncaught exception that ended the run, or None
    total_tasks,        \* line 228
    tasks_done,         \* line 235
    results,            \* line 234
    success_list,       \* line 249
    skipped_list,
    failed_list,
    at,                 \* position of the nested loops: source, country, ratio
    result,             \* the executor's return value not yet recorded
    progress_updates,   \* every progress_bar.progress call of the run
    calls,              \* every create_custom_audience call and what it did
    used_names,         \* remote: the names of the audiences created so far
    pass,               \* which script run this is
    earlier_passes,     \* the buckets the earlier runs ended with
    cache,              \* st.cache_data's store of get_custom_audiences
    now,                \* the clock, seconds
    returned            \* what the last get_custom_audiences call returned

inputs == <<ad_account_id, countries_input, ratios_input, selected_strategy,
            countries, ratios, df_display, picked_rows,
            selected_audience_display_names>>
batch == <<total_tasks, tasks_done, results, success_list, skipped_list,
           failed_list, at, result, progress_updates>>
remote == <<calls, used_names>>
passes == <<pass, earlier_passes>>
listing == <<cache, now, returned>>

vars == <<inputs, selected_audiences, pc, raised, batch, remote, passes, listing>>

------------------------------------------------------------------------------
(* Initial states: the sidebar and the multiselect as the operator left     *)
(* them when the script run starts.                                         *)

CountryInputs == { <<>>, <<" ",","," ">>, <<"t","w">>, <<"T","W",",","u","s">>, <<"t","w",","," ","T","W">>, <<"t","w",",","u","s",",","j","p">> }

RatioInputs == { <<>>, <<"0",".","0","5">>, <<"0",".","0","1",",","0",".","0","1","5">>, <<"0",".","2","8",",","0",".","2","9">>, <<"0",".","1",",","x">>, <<"x">> }

\* Sequences of distinct row positions: the order the operator ticked them in.
Picks(n) ==
    { <<>> } \cup { <<i>> : i \in 1..n }
        \cup { p \in (1..n) \X (1..n) : p[1] # p[2] }

EmptyBatch ==
    /\ total_tasks = 0
    /\ tasks_done = 0
    /\ results = <<>>
    /\ success_list = <<>>
    /\ skipped_list = <<>>
    /\ failed_list = <<>>
    /\ at = NoTriple
    /\ result = NoResult
    /\ progress_updates = <<>>

ColdListing ==
    /\ cache = {}
    /\ now = 0
    /\ returned = [account |-> None]

InitRun ==
    /\ ad_account_id \in Accounts
    /\ countries_input \in CountryInputs
    /\ ratios_input \in RatioInputs
    /\ selected_strategy \in {"skip", "strict"}
    /\ countries = ParseCountries(countries_input)
    /\ ratios = ParseRatios(ratios_input)
    /\ df_display = FetchedListing(ad_account_id)[1]
    /\ picked_rows \in Picks(Len(df_display))
    /\ selected_audience_display_names =
           [i \in DOMAIN picked_rows |-> DisplayName(df_display[picked_rows[i]])]
    /\ Len(picked_rows) * Len(countries) * Len(ratios) <= MaxTasks
    /\ selected_audiences = <<>>
    /\ pc = "select"
    /\ raised = None
    /\ EmptyBatch
    /\ calls = <<>>
    /\ used_names = {}
    /\ pass = 1
    /\ earlier_passes = <<>>

Init == InitRun /\ ColdListing

------------------------------------------------------------------------------
(* One script run.                                                          *)

\* Lines 210-220: the selected display names are resolved to audiences.
Resolve ==
    /\ pc = "select"
    /\ LET resolved == ResolveSelection(df_display, selected_audience_display_names)
       IN  IF resolved = IndexError
           THEN /\ pc' = "crashed"
                /\ raised' = IndexError
                /\ UNCHANGED selected_audiences
           ELSE /\ pc' = "guard"
                /\ selected_audiences' = resolved
                /\ UNCHANGED raised
    /\ UNCHANGED <<inputs, batch, remote, passes, listing>>

\* The condition of line 225.
Incomplete == selected_audiences = <<>> \/ countries = <<>> \/ ratios = <<>>

\* Lines 225-230: the configuration guard and the task count.
Guard ==
    /\ pc = "guard"
    /\ IF Incomplete
       THEN pc' = "incomplete" /\ UNCHANGED total_tasks
       ELSE /\ pc' = "ready"
            /\ total_tasks' = Len(selected_audiences) * Len(countries) * Len(ratios)
    /\ UNCHANGED <<inputs, selected_audiences, raised, tasks_done, results,
                   success_list, skipped_list, failed_list, at, result,
                   progress_updates, remote, passes, listing>>

\* Lines 232-249: the button is pressed and the run's state is set up.
Button ==
    /\ pc = "ready"
    /\ pc' = "progress"
    /\ progress_updates' = <<[value |-> <<0, 1>>, text |-> <<"p","r","e","p","a","r","i","n","g">>]>>
    /\ results' = <<>>
    /\ tasks_done' = 0
    /\ success_list' = <<>>
    /\ skipped_list' = <<>>
    /\ failed_list' = <<>>
    /\ at' = [s |-> 1, c |-> 1, r |-> 1]
    /\ UNCHANGED <<inputs, selected_audiences, raised, total_tasks, result,
                   remote, passes, listing>>

\* Lines 254-255: the progress update of the task about to run.  float(ratio)
\* is outside any try block.
Progress ==
    /\ pc = "progress"
    /\ IF RaisesValueError(ratios[at.r])
       THEN /\ pc' = "crashed"
            /\ raised' = "ValueError"
            /\ UNCHANGED progress_updates
       ELSE /\ pc' = "execute"
            /\ progress_updates' = Append(progress_updates,
                   [ value |-> <<ProgressCount(tasks_done), total_tasks>>,
                     text |-> ProgressText(countries[at.c], ratios[at.r],
                                           ProgressCount(tasks_done), total_tasks) ])
            /\ UNCHANGED raised
    /\ UNCHANGED <<inputs, selected_audiences, total_tasks, tasks_done, results,
                   success_list, skipped_list, failed_list, at, result,
                   remote, passes, listing>>

\* Lines 257-264 with 106-137: the executor runs for the current triple and
\* the remote service does `outcome`.  Lines 108-109 are outside the try.
Dispatch(outcome) ==
    /\ pc = "execute"
    /\ LET source_audience == selected_audiences[at.s]
           country == countries[at.c]
           ratio == ratios[at.r]
       IN  IF RaisesValueError(ratio)
           THEN /\ pc' = "crashed"
                /\ raised' = "ValueError"
                /\ UNCHANGED <<result, remote>>
           ELSE LET lookalike_name == LookalikeName(country, ratio, source_audience.name)
                IN  /\ pc' = "record"
                    /\ result' = TaskResult(lookalike_name, outcome, selected_strategy)
                    /\ calls' = Append(calls,
                           [ account |-> ad_account_id,
                             params |-> CreateParams(source_audience.id, lookalike_name,
                                                     country, ratio),
                             outcome |-> outcome ])
                    /\ used_names' = IF outcome.kind = "ok"
                                     THEN used_names \cup {lookalike_name}
                                     ELSE used_names
                    /\ UNCHANGED raised
    /\ UNCHANGED <<inputs, selected_audiences, total_tasks, tasks_done, results,
                   success_list, skipped_list, failed_list, at,
                   progress_updates, passes, listing>>

\* The remote service may do anything.
Execute == \E outcome \in RemoteOutcomes(Len(calls) + 1) : Dispatch(outcome)

\* Faulty variant of BucketOf: no branch takes a skipped result.
BucketOfNoSkipBranch(status) ==
    IF status = "success" THEN "success"
    ELSE IF status = "failed" THEN "failed"
    ELSE "none"

\* The bucket lines 268-276 append the result to.
BucketOf(status) ==
    IF status = "success" THEN "success"
    ELSE IF status = "skipped" THEN "skipped"
    ELSE "failed"

\* Lines 265-276: the result is appended, counted and listed in its bucket.
\* These statements touch only the script's own lists and counter; the first
\* thing shown outside, the redrawn bucket of lines 270, 273 or 276, comes
\* after the append, so the step is taken as one.
Record ==
    /\ pc = "record"
    /\ pc' = "sleep"
    /\ results' = Append(results, result)
    /\ tasks_done' = tasks_done + 1
    /\ success_list' = IF BucketOf(result.status) = "success"
                       THEN Append(success_list, SuccessItem(result))
                       ELSE success_list
    /\ skipped_list' = IF BucketOf(result.status) = "skipped"
                       THEN Append(skipped_list, ReasonItem(result))
                       ELSE skipped_list
    /\ failed_list' = IF BucketOf(result.status) = "failed"
                      THEN Append(failed_list, ReasonItem(result))
                      ELSE failed_list
    /\ result' = NoResult
    /\ UNCHANGED <<inputs, selected_audiences, raised, total_tasks, at,
                   progress_updates, remote, passes, listing>>

\* Line 278 and the loop headers of lines 251-253: the pause, then the next
\* triple or the end of the loops.
Sleep ==
    /\ pc = "sleep"
    /\ LET next == NextTriple(at, Len(selected_audiences), Len(countries), Len(ratios))
       IN  IF next = NoTriple
           THEN pc' = "finish" /\ UNCHANGED at
           ELSE pc' = "progress" /\ at' = next
    /\ UNCHANGED <<inputs, selected_audiences, raised, total_tasks, tasks_done,
                   results, success_list, skipped_list, failed_list, result,
                   progress_updates, remote, passes, listing>>

\* Lines 280-282: the closing progress update and the summary.
Finish ==
    /\ pc = "finish"
    /\ pc' = "done"
    /\ progress_updates' = Append(progress_updates,
                                  [value |-> <<1, 1>>, text |-> FinishedText])
    /\ UNCHANGED <<inputs, selected_audiences, raised, total_tasks, tasks_done,
                   results, success_list, skipped_list, failed_list, at, result,
                   remote, passes, listing>>

Next == Resolve \/ Guard \/ Button \/ Progress \/ Execute \/ Record \/ Sleep \/ Finish

Spec == Init /\ [][Next]_vars

------------------------------------------------------------------------------
(* Two script runs against a remote service that refuses a used name.       *)

\* A remote service that accepts a create call iff its name is new.
UniqueNameRemote(lookalike_name, call_number) ==
    IF lookalike_name \in used_names
    THEN ApiError(DuplicateMessage)
    ELSE Ok(<<"9">> \o IntToText(call_number))

ExecuteUnique ==
    /\ pc = "execute"
    /\ Dispatch(IF RaisesValueError(ratios[at.r])
                THEN OtherException(<<"u","n","r","e","a","c","h","a","b","l","e">>)
                ELSE UniqueNameRemote(LookalikeName(countries[at.c], ratios[at.r],
                                                    selected_audiences[at.s].name),
                                      Len(calls) + 1))

\* The operator presses the button again: Streamlit runs the script from the
\* top with the same widget values, lines 164-232, and the loop starts anew.
Rerun ==
    /\ pc \in {"done", "crashed"}
    /\ pass < MaxPasses
    /\ pass' = pass + 1
    /\ earlier_passes' = Append(earlier_passes,
           [ pc |-> pc, success_list |-> success_list,
             skipped_list |-> skipped_list, failed_list |-> failed_list ])
    /\ pc' = "select"
    /\ raised' = None
    /\ selected_audiences' = <<>>
    /\ total_tasks' = 0
    /\ tasks_done' = 0
    /\ results' = <<>>
    /\ success_list' = <<>>
    /\ skipped_list' = <<>>
    /\ failed_list' = <<>>
    /\ at' = NoTriple
    /\ result' = NoResult
    /\ progress_updates' = <<>>
    /\ UNCHANGED <<inputs, remote, listing>>

NextTwice ==
    Resolve \/ Guard \/ Button \/ Progress \/ ExecuteUnique \/ Record \/ Sleep
        \/ Finish \/ Rerun

SpecTwice == Init /\ [][NextTwice]_vars

------------------------------------------------------------------------------
(* The memoised listing across script runs, lines 63-64 and 187-188.        *)

\* The entry st.cache_data holds for a key, if it has not expired.
Fresh(key) == {e \in cache : e.key = key /\ now < e.time + TTL}

\* Line 188: the script calls get_custom_audiences(ad_account_id).  The
\* decorator returns the stored value for the call's key while it is fresh
\* and otherwise runs the body, lines 69-103, and stores what it returns.
GetCustomAudiences ==
    \E account \in Accounts :
        /\ ad_account_id' = account
        /\ IF Fresh(CacheKey(account)) # {}
           THEN LET e == CHOOSE e \in Fresh(CacheKey(account)) : TRUE
                IN  /\ returned' = [ account |-> account, value |-> e.value,
                                     fetched_for |-> e.fetched_for ]
                    /\ UNCHANGED cache
           ELSE \E value \in FetchResults(account) :
                    /\ cache' = {e \in cache : e.key # CacheKey(account)} \cup
                                { [ key |-> CacheKey(account), value |-> value,
                                    time |-> now, fetched_for |-> account ] }
                    /\ returned' = [ account |-> account, value |-> value,
                                     fetched_for |-> account ]
        /\ UNCHANGED <<countries_input, ratios_input, selected_strategy, countries,
                       ratios, df_display, picked_rows,
                       selected_audience_display_names, selected_audiences, pc,
                       raised, batch, remote, passes, now>>

\* Time passes between script runs.
Tick ==
    /\ now + (TTL \div 2) <= MaxNow
    /\ now' = now + (TTL \div 2)
    /\ UNCHANGED <<inputs, selected_audiences, pc, raised, batch, remote, passes,
                   cache, returned>>

InitCache ==
    /\ InitRun
    /\ countries_input = <<"t","w">>
    /\ ratios_input = <<"0",".","0","5">>
    /\ selected_strategy = "skip"
    /\ picked_rows = <<>>
    /\ cache = {}
    /\ now = 0
    /\ returned = [account |-> None]

NextCache == GetCustomAudiences \/ Tick

SpecCache == InitCache /\ [][NextCache]_vars

------------------------------------------------------------------------------
(* Vocabulary of the properties.                                            *)

\* The loop has been entered in this script run.
BatchStarted == progress_updates # <<>>

\* The script run has ended inside or after the loop.
BatchEnded == BatchStarted /\ pc \in {"done", "crashed"}

NumSources == Len(selected_audiences)
NumCountries == Len(countries)
NumRatios == Len(ratios)

\* The n-th triple of the product sources x countries x ratios, counted
\* source-major, country-middle, ratio-minor.
TripleAt(n) ==
    [ source |-> selected_audiences[((n - 1) \div (NumCountries * NumRatios)) + 1],
      country |-> countries[(((n - 1) \div NumRatios) % NumCountries) + 1],
      ratio |-> ratios[((n - 1) % NumRatios) + 1] ]

\* The name of the audience of the n-th triple.
NameAt(n) == LookalikeName(TripleAt(n).country, TripleAt(n).ratio, TripleAt(n).source.name)

\* The n-th create call is the call for the n-th triple.
CallIsFor(n) ==
    /\ calls[n].params.origin_audience_id = TripleAt(n).source.id
    /\ calls[n].params.countries = <<TripleAt(n).country>>
    /\ calls[n].params.ratio = FloatThousandths(TripleAt(n).ratio)
    /\ calls[n].params.name = NameAt(n)

\* The progress updates of the loop: all but the "preparing" one of line 233
\* and the closing one of line 280.
NumLoopUpdates ==
    IF ~BatchStarted THEN 0
    ELSE IF pc = "done" THEN Len(progress_updates) - 2
    ELSE Len(progress_updates) - 1

LoopUpdate(n) == progress_updates[n + 1]

\* A text input with no entry left after splitting, trimming and dropping blanks.
AllBlank(text) == \A i \in DOMAIN text : text[i] = "," \/ text[i] \in Whitespace

OfStatus(status) == SelectSeq(results, LAMBDA r : r.status = status)

------------------------------------------------------------------------------
(* Properties.                                                              *)

\* C1: no failure of a single task aborts the batch: when a started run has
\* ended, every triple of the product has its one result recorded, and the
\* run did not end by an uncaught exception.
C1_FailSoft ==
    BatchEnded => (pc = "done" /\ Len(results) = total_tasks)

\* C2: completed (tasks_done) never exceeds total, and the three buckets
\* together hold exactly completed items, in every state of a run.
C2_CountsAgree ==
    /\ tasks_done <= total_tasks
    /\ Len(success_list) + Len(skipped_list) + Len(failed_list) = tasks_done

\* C2 witness: a run in progress with an item in each bucket and a task left.
C2_Witness ==
    /\ pc = "progress"
    /\ tasks_done = 3
    /\ total_tasks = 4
    /\ success_list # <<>>
    /\ skipped_list # <<>>
    /\ failed_list # <<>>

\* C3: a started run ends with completed = total = |sources| * |countries| *
\* |ratios| and with exactly one create call per triple of the product, in
\* the product's order.
C3_EveryTripleOnce ==
    BatchEnded =>
        /\ tasks_done = total_tasks
        /\ total_tasks = NumSources * NumCountries * NumRatios
        /\ Len(calls) = total_tasks
        /\ \A n \in DOMAIN calls : CallIsFor(n)

\* C4: a duplicate-name rejection is skipped with the fixed reason under
\* policy skip and failed with the remote message under policy strict, so a
\* run whose every call is rejected that way has only skipped results under
\* skip and only failed results under strict; any other rejection is failed
\* with the remote message under either policy.
C4_DuplicatePolicy ==
    /\ \A n \in DOMAIN results :
          calls[n].outcome = ApiError(DuplicateMessage) =>
              IF selected_strategy = "skip"
              THEN results[n].status = "skipped" /\ results[n].reason = SkipReason
              ELSE results[n].status = "failed" /\ results[n].reason = DuplicateMessage
    /\ (\A n \in DOMAIN calls : calls[n].outcome = ApiError(DuplicateMessage)) =>
          IF selected_strategy = "skip"
          THEN /\ success_list = <<>>
               /\ failed_list = <<>>
               /\ Len(skipped_list) = tasks_done
          ELSE /\ success_list = <<>>
               /\ skipped_list = <<>>
               /\ Len(failed_list) = tasks_done
    /\ \A n \in DOMAIN results :
          calls[n].outcome = ApiError(OtherMessage) =>
              results[n].status = "failed" /\ results[n].reason = OtherMessage

\* C4 witness: a finished run under policy skip whose calls, more than one,
\* were all rejected as duplicate names.
C4_Witness ==
    /\ pc = "done"
    /\ selected_strategy = "skip"
    /\ tasks_done >= 2
    /\ \A n \in DOMAIN calls : calls[n].outcome = ApiError(DuplicateMessage)

\* C5: with policy skip and a remote service that accepts a name iff it is
\* new, the first of two identical runs ends with successes only and the
\* second with skips only.
C5_SecondPassSkipsAll ==
    (pass = 2 /\ pc = "done" /\ selected_strategy = "skip") =>
        /\ earlier_passes[1].skipped_list = <<>>
        /\ earlier_passes[1].failed_list = <<>>
        /\ success_list = <<>>
        /\ failed_list = <<>>

\* C6 as claimed: the update of the n-th triple is emitted once the n-th
\* result has been counted and recorded, and its label is the audience name.
C6_UpdateAfterRecord ==
    \A n \in 1..NumLoopUpdates :
        /\ n <= tasks_done
        /\ n <= Len(results)
        /\ Contains(LoopUpdate(n).text, results[n].name)

\* C6 as amended: the update of the n-th triple is emitted before the n-th
\* executor call; it carries (n, total), n being the tasks finished so far
\* plus one, and the label COUNTRY-percentage% of the triple, the audience
\* name without its source part.
C6_UpdateBeforeCall ==
    /\ Len(calls) <= NumLoopUpdates
    /\ Len(results) <= NumLoopUpdates
    /\ NumLoopUpdates <= tasks_done + 1
    /\ \A n \in 1..NumLoopUpdates :
          /\ LoopUpdate(n).value = <<n, total_tasks>>
          /\ LoopUpdate(n).text =
                 ProgressText(TripleAt(n).country, TripleAt(n).ratio, n, total_tasks)
          /\ n <= Len(results) =>
                 /\ ~Contains(LoopUpdate(n).text, results[n].name)
                 /\ \E label \in {SubSeq(results[n].name, 1, k) : k \in 1..Len(results[n].name)} :
                        /\ results[n].name = label \o <<"-">> \o TripleAt(n).source.name
                        /\ Contains(LoopUpdate(n).text, <<"c","r","e","a","t","i","n","g",":"," ">> \o label \o <<" ","L","A","L",".",".","."," ","(">>)

\* C6 witness: the second update is out while only the first task is recorded.
C6_Witness ==
    /\ pc = "execute"
    /\ tasks_done = 1
    /\ NumLoopUpdates = 2
    /\ Len(calls) = 1

\* C7: the n-th call and the n-th result belong to the n-th triple in
\* source-major, country-middle, ratio-minor order, and each bucket lists,
\* in that order, exactly the results of its own status.
C7_OrderAndBuckets ==
    /\ \A n \in DOMAIN calls : CallIsFor(n)
    /\ \A n \in DOMAIN results :
          /\ results[n].name = NameAt(n)
          /\ calls[n].outcome.kind = "ok" <=> results[n].status = "success"
          /\ (calls[n].outcome = ApiError(DuplicateMessage) /\ selected_strategy = "skip")
                 <=> results[n].status = "skipped"
    /\ LET successes == OfStatus("success")
           skips == OfStatus("skipped")
           failures == OfStatus("failed")
       IN  /\ success_list = [i \in DOMAIN successes |-> SuccessItem(successes[i])]
           /\ skipped_list = [i \in DOMAIN skips |-> ReasonItem(skips[i])]
           /\ failed_list = [i \in DOMAIN failures |-> ReasonItem(failures[i])]
           /\ Len(successes) + Len(skips) + Len(failures) = Len(results)

\* C7 witness: the mixed run of three tasks under policy skip: a success, a
\* duplicate-name rejection and an unrelated API error, one item per bucket.
C7_Witness ==
    /\ pc = "done"
    /\ selected_strategy = "skip"
    /\ Len(calls) = 3
    /\ calls[1].outcome.kind = "ok"
    /\ calls[2].outcome = ApiError(DuplicateMessage)
    /\ calls[3].outcome = ApiError(OtherMessage)
    /\ Len(success_list) = 1
    /\ Len(skipped_list) = 1
    /\ Len(failed_list) = 1

\* C8: when no source is selected, or the country text or the ratio text has
\* no entry left after trimming and dropping blanks, the loop never starts
\* and no create call is made.
C8_NoStartWhenEmpty ==
    (\/ AllBlank(countries_input)
     \/ AllBlank(ratios_input)
     \/ (pc # "select" /\ selected_audiences = <<>>))
        => (calls = <<>> /\ ~BatchStarted /\ pc \in {"select", "guard", "incomplete", "crashed"})

\* C8 witness: sources and ratios are given, the country text holds only
\* blanks and a comma, and the guard has refused to start.
C8_Witness ==
    /\ pc = "incomplete"
    /\ selected_audiences # <<>>
    /\ ratios # <<>>
    /\ countries_input # <<>>
    /\ AllBlank(countries_input)

\* C9: a get_custom_audiences call for one account never returns a value
\* that was fetched for another account.
C9_KeyedByAccount ==
    returned.account # None => returned.fetched_for = returned.account

\* C10: once the selection is resolved, selected_audiences lists, in order,
\* the id and name of exactly the rows the operator selected, and resolving
\* never fails.
C10_SelectionResolved ==
    /\ raised # IndexError
    /\ pc \notin {"select", "crashed"} =>
          selected_audiences =
              [ i \in DOMAIN picked_rows |->
                  [ id |-> df_display[picked_rows[i]].id,
                    name |-> df_display[picked_rows[i]].name ] ]

====
